---------------------------- MODULE Spec2Model ----------------------------
(***************************************************************************)
(* A model of xrdtools.io.read_xrdml (src/xrdtools/io.py): the decoder of  *)
(* Panalytical XRDML measurement documents.                                *)
(*                                                                         *)
(* The document is the tree the XML collaborator hands over, cut down to   *)
(* the elements and attributes read_xrdml reads.  read_xrdml runs as a     *)
(* sequence of steps over the dictionary `data`; every step is one action, *)
(* and an exception ends the run in pc = "error".                          *)
(*                                                                         *)
(* Numbers are exact rationals <<numerator, denominator>> (floating-point  *)
(* rounding is not modelled).  numpy semantics are those of the releases   *)
(* the package targets (numpy >= 1.7, Python 2.7 - 3.6, src/setup.py):     *)
(* `ndarray == []` is falsy, shapes broadcast, in-place operators keep the *)
(* shape of their left operand.                                            *)
(***************************************************************************)
EXTENDS Integers, Sequences, FiniteSets, TLC

(***************************************************************************)
(* Bounds of the model.                                                    *)
(***************************************************************************)
MaxScans == 3
MaxPoints == 2
\* the largest number of points asked of _read_axis_info, and the largest
\* position given to it
MaxLen == 4
MaxPos == 2
\* calls of read_xrdml made one after the other
MaxCalls == 3

(***************************************************************************)
(* Rational arithmetic.                                                    *)
(***************************************************************************)
Abs(i) == IF i < 0 THEN -i ELSE i

RECURSIVE GCD(_, _)
GCD(a, b) == IF b = 0 THEN a ELSE GCD(b, a % b)

Norm(n, d) ==
    LET s == IF d < 0 THEN -1 ELSE 1
        g == GCD(Abs(n), Abs(d))
    IN  <<(s * n) \div g, (s * d) \div g>>

Num(i) == <<i, 1>>
RAdd(x, y) == Norm(x[1] * y[2] + y[1] * x[2], x[2] * y[2])
RSub(x, y) == Norm(x[1] * y[2] - y[1] * x[2], x[2] * y[2])
RMul(x, y) == Norm(x[1] * y[1], x[2] * y[2])
\* x / y for y # 0 (the documents modelled hold no zero counting time)
RDiv(x, y) == Norm(x[1] * y[2], x[2] * y[1])

(***************************************************************************)
(* Python values: an ndarray is its shape and its elements in row-major    *)
(* order (a 0-d array and a numpy scalar both have shape <<>>); a list is  *)
(* its items.  A text is what findtext returns: None, or the numbers of    *)
(* the element's text.                                                     *)
(***************************************************************************)
None == "None"
Nd(sh, v) == [t |-> "nd", sh |-> sh, v |-> v]
List(items) == [t |-> "list", sh |-> <<>>, v |-> items]
EmptyList == List(<<>>)
IsList(x) == x.t = "list"
IsNd(x) == x.t = "nd"
\* `x == []` used as a condition: true for the empty list only
IsEmptyList(x) == IsList(x) /\ Len(x.v) = 0
Size(a) == Len(a.v)
NDim(a) == Len(a.sh)

Ok(val) == [ok |-> TRUE, val |-> val, err |-> ""]
Raise(e) == [ok |-> FALSE, val |-> <<>>, err |-> e]

NoText == [some |-> FALSE, nums |-> <<>>]
Text(nums) == [some |-> TRUE, nums |-> nums]

_txt_list2arr(txt) ==
    IF ~txt.some THEN Nd(<<0>>, <<>>)
    ELSE Nd(<<Len(txt.nums)>>, [i \in 1..Len(txt.nums) |-> Num(txt.nums[i])])

(***************************************************************************)
(* numpy helpers                                                           *)
(***************************************************************************)
\* a variant that leaves the end point out: steps of (b - a) / n
LinspaceOpen(a, b, n) ==
    Nd(<<n>>, [i \in 1..n |-> RAdd(a, RMul(RSub(b, a), Norm(i - 1, n)))])

\* np.linspace(a, b, n) for n >= 1
Linspace(a, b, n) ==
    IF n = 1 THEN Nd(<<1>>, <<a>>)
    ELSE Nd(<<n>>, [i \in 1..n |->
            RAdd(a, RMul(RSub(b, a), Norm(i - 1, n - 1)))])

\* np.atleast_2d
AtLeast2d(a) ==
    IF NDim(a) = 0 THEN Nd(<<1, 1>>, a.v)
    ELSE IF NDim(a) = 1 THEN Nd(<<1, a.sh[1]>>, a.v)
    ELSE a

\* np.vstack((a, b)): rows of b beneath the rows of a
VStack(a, b) ==
    LET a2 == AtLeast2d(a)
        b2 == AtLeast2d(b)
    IN  IF a2.sh[2] # b2.sh[2] THEN Raise("ValueError")
        ELSE Ok(Nd(<<a2.sh[1] + b2.sh[1], a2.sh[2]>>, a2.v \o b2.v))

\* a[i] for an array of one or two dimensions, i counted from 0
Item0(a, i) ==
    IF NDim(a) = 1 THEN Nd(<<>>, <<a.v[i + 1]>>)
    ELSE Nd(<<a.sh[2]>>, SubSeq(a.v, i * a.sh[2] + 1, (i + 1) * a.sh[2]))

\* len(a) of an array with at least one dimension
PyLen(a) == a.sh[1]

\* np.all(a == a[0])
AllEqualFirst(a) ==
    IF NDim(a) = 1 THEN \A i \in 1..Len(a.v) : a.v[i] = a.v[1]
    ELSE \A i \in 1..Len(a.v) : a.v[i] = a.v[((i - 1) % a.sh[2]) + 1]

\* np.asarray of a list of one-dimensional arrays of one length
AsArray(x) ==
    IF IsNd(x) THEN x
    ELSE IF Len(x.v) = 0 THEN Nd(<<0>>, <<>>)
    ELSE LET n == Size(x.v[1])
             k == Len(x.v)
         IN  Nd(<<k, n>>, [i \in 1..(k * n) |->
                 x.v[((i - 1) \div n) + 1].v[((i - 1) % n) + 1]])

\* np.ones_like(like) * val for val of size 1 (shape (), (1,))
OnesTimes(like, val) ==
    LET l == AsArray(like)
    IN  IF NDim(l) = 0 /\ NDim(val) = 1 THEN Nd(<<1>>, val.v)
        ELSE Nd(l.sh, [i \in 1..Size(l) |-> val.v[1]])

(***************************************************************************)
(* The document                                                            *)
(***************************************************************************)
Kid(tag, nums) == [tag |-> tag, nums |-> nums]
Positions(axis, unit, kids) == [axis |-> axis, unit |-> unit, kids |-> kids]

KidTags(pos) == {pos.kids[i].tag : i \in 1..Len(pos.kids)}
\* uid_pos.findtext(tag): the text of the first child with that tag
FindKid(pos, tag) ==
    pos.kids[CHOOSE i \in 1..Len(pos.kids) :
        /\ pos.kids[i].tag = tag
        /\ \A j \in 1..(i - 1) : pos.kids[j].tag # tag]

(***************************************************************************)
(* _read_axis_info: the loop over the children of one positions element,   *)
(* then the interpolation of a start/end pair.  The loop state is          *)
(* info['data'] (has, dat), unspaced and isarray.                          *)
(***************************************************************************)
AxisLoopInit ==
    [ok |-> TRUE, err |-> "", has |-> FALSE, dat |-> Nd(<<0>>, <<>>),
     unspaced |-> TRUE, isarray |-> TRUE]

SetItem(st, i, x) ==
    \* info['data'][i] = x
    IF NDim(st.dat) = 0 \/ Size(st.dat) <= i
    THEN [st EXCEPT !.ok = FALSE, !.err = "IndexError"]
    ELSE [st EXCEPT !.dat = Nd(st.dat.sh, [st.dat.v EXCEPT ![i + 1] = x])]

AxisLoopStep(st, pos, child) ==
    IF ~st.ok THEN st
    ELSE IF child.tag = "listPositions"
    THEN [st EXCEPT !.has = TRUE,
                    !.dat = _txt_list2arr(Text(FindKid(pos, "listPositions").nums)),
                    !.unspaced = FALSE]
    ELSE IF child.tag \in {"startPosition", "endPosition", "commonPosition"}
    THEN LET s1 == IF st.has THEN st
                   ELSE [st EXCEPT !.has = TRUE,
                                   !.dat = Nd(<<2>>, <<Num(0), Num(0)>>)]
         IN  IF child.tag = "startPosition"
             THEN SetItem(s1, 0, Num(FindKid(pos, "startPosition").nums[1]))
             ELSE IF child.tag = "endPosition"
             THEN SetItem(s1, 1, Num(FindKid(pos, "endPosition").nums[1]))
             ELSE [s1 EXCEPT !.dat = Nd(<<>>, <<Num(FindKid(pos, "commonPosition").nums[1])>>),
                             !.isarray = FALSE]
    ELSE [st EXCEPT !.has = TRUE, !.dat = Nd(<<0>>, <<>>)]

RECURSIVE AxisLoop(_, _, _)
AxisLoop(st, pos, i) ==
    IF i > Len(pos.kids) THEN st
    ELSE AxisLoop(AxisLoopStep(st, pos, pos.kids[i]), pos, i + 1)

_read_axis_info(pos, n) ==
    LET st == AxisLoop(AxisLoopInit, pos, 1)
    IN  IF ~st.ok THEN Raise(st.err)
        ELSE IF st.unspaced /\ n # 0 /\ st.isarray
        THEN IF ~st.has THEN Raise("KeyError")
             ELSE IF Size(st.dat) < 2 THEN Raise("IndexError")
             ELSE Ok([axis |-> pos.axis, unit |-> pos.unit, has |-> TRUE,
                      data |-> Linspace(st.dat.v[1], st.dat.v[2], n)])
        \* line 234: len(info['data']) of an array without a dimension
        ELSE IF ~st.unspaced /\ n # 0 /\ NDim(st.dat) = 0 THEN Raise("TypeError")
        ELSE Ok([axis |-> pos.axis, unit |-> pos.unit, has |-> st.has,
                 data |-> st.dat])

(***************************************************************************)
(* _get_scan_data: the record of one scan element.  A scan element is      *)
(* [status, scanAxis, mode, intensities (a text, None when the element is  *)
(* absent), unit, countingTimes, commonCountingTime, positions].           *)
(***************************************************************************)
AxisNames == {"2Theta", "Omega", "Phi", "Psi", "X", "Y", "Z"}

\* a /= b for one-dimensional a and b: the result keeps the shape of a
DivInPlace(a, b) ==
    IF Size(b) = Size(a)
    THEN Ok(Nd(a.sh, [i \in 1..Size(a) |-> RDiv(a.v[i], b.v[i])]))
    ELSE IF Size(b) = 1
    THEN Ok(Nd(a.sh, [i \in 1..Size(a) |-> RDiv(a.v[i], b.v[1])]))
    ELSE Raise("ValueError")

\* a variant that keeps every axis under its name
RECURSIVE ScanAxesKeepAll(_, _, _, _)
ScanAxesKeepAll(sd, scan, n, i) ==
    IF i > Len(scan.positions) THEN Ok(sd)
    ELSE LET info == _read_axis_info(scan.positions[i], n)
         IN  IF ~info.ok THEN info
             ELSE IF ~info.val.has THEN Raise("KeyError")
             ELSE ScanAxesKeepAll((info.val.axis :> info.val.data) @@ sd,
                                  scan, n, i + 1)

\* the loop over the positions elements of the scan (lines 173-190)
RECURSIVE ScanAxes(_, _, _, _)
ScanAxes(sd, scan, n, i) ==
    IF i > Len(scan.positions) THEN Ok(sd)
    ELSE LET info == _read_axis_info(scan.positions[i], n)
         IN  IF ~info.ok THEN info
             ELSE IF info.val.axis \in AxisNames
             THEN IF ~info.val.has THEN Raise("KeyError")
                  ELSE ScanAxes((info.val.axis :> info.val.data) @@ sd,
                                scan, n, i + 1)
             ELSE ScanAxes(sd, scan, n, i + 1)

\* a variant that leaves the intensities as recorded
NormalizeNever(unit, d, t) == Ok(d)

\* normalize intensity units to cps (lines 165-167)
Normalize(unit, d, t) ==
    IF unit = "counts" THEN DivInPlace(d, t) ELSE Ok(d)

_get_scan_data(uid_scans, scannb) ==
    LET scan == uid_scans[scannb + 1]
        raw == _txt_list2arr(scan.intensities)
        time == _txt_list2arr(IF scan.mode = "Pre-set counts"
                              THEN scan.countingTimes
                              ELSE scan.commonCountingTime)
    IN  IF ~scan.intensities.some THEN Raise("AttributeError")
        ELSE LET cps == Normalize(scan.unit, raw, time)
             IN  IF ~cps.ok THEN cps
                 ELSE ScanAxes([key \in {"status", "scanAxis", "data", "time"} |->
                                   CASE key = "status" -> scan.status
                                     [] key = "scanAxis" -> scan.scanAxis
                                     [] key = "data" -> cps.val
                                     [] key = "time" -> time],
                               scan, Size(cps.val), 1)

(***************************************************************************)
(* _append2arr and _get_array_for_single_value, on the dictionary `data`   *)
(***************************************************************************)
Put(d, key, val) == (key :> val) @@ d
Pop(d, keys) == [key \in (DOMAIN d) \ keys |-> d[key]]

_append2arr(data, scan, key) ==
    IF key \notin DOMAIN scan THEN Raise("KeyError")
    ELSE IF IsEmptyList(data[key]) THEN Ok(Put(data, key, scan[key]))
    ELSE LET st == VStack(AsArray(data[key]), scan[key])
         IN  IF st.ok THEN Ok(Put(data, key, st.val)) ELSE st

\* a variant that never reduces an array of equal values
SingleValueKeepArray(data, key) ==
    IF key \notin DOMAIN data THEN Ok(data)
    ELSE IF IsList(data[key]) THEN Raise("AttributeError")
    ELSE IF Size(data[key]) = 1
    THEN Ok(Put(data, key, OnesTimes(data["data"], data[key])))
    ELSE Ok(data)

_get_array_for_single_value(data, key) ==
    IF key \notin DOMAIN data THEN Ok(data)
    ELSE IF IsList(data[key]) THEN Raise("AttributeError")
    ELSE IF Size(data[key]) = 1
    THEN Ok(Put(data, key, OnesTimes(data["data"], data[key])))
    ELSE IF NDim(data[key]) = 0 THEN Raise("TypeError")
    ELSE IF PyLen(data[key]) > 1 /\ AllEqualFirst(data[key])
    THEN Ok(Put(data, key, Item0(data[key], 0)))
    ELSE Ok(data)

\* the same function over a list of keys, in order
RECURSIVE ReduceKeys(_, _, _)
ReduceKeys(data, keys, i) ==
    IF i > Len(keys) THEN Ok(data)
    ELSE LET r == _get_array_for_single_value(data, keys[i])
         IN  IF r.ok THEN ReduceKeys(r.val, keys, i + 1) ELSE r

RECURSIVE AppendKeys(_, _, _, _)
AppendKeys(data, scan, keys, i) ==
    IF i > Len(keys) THEN Ok(data)
    ELSE LET r == _append2arr(data, scan, keys[i])
         IN  IF r.ok THEN AppendKeys(r.val, scan, keys, i + 1) ELSE r

PrimaryKeys == <<"scannb", "data", "time", "2Theta", "Omega", "Phi", "Psi", "X", "Y", "Z">>
IncidentalKeys == <<"iscannb", "idata", "itime", "i2Theta", "iOmega", "iPhi", "iPsi", "iX", "iY", "iZ">>
StackedKeys == <<"data", "time", "2Theta", "Omega", "Phi", "Psi", "X", "Y", "Z">>
StageKeys == <<"Phi", "Psi", "X", "Y", "Z">>
Range(s) == {s[i] : i \in 1..Len(s)}

(***************************************************************************)
(* The state of one call of read_xrdml                                     *)
(***************************************************************************)
VARIABLES
    doc,        \* the document being decoded
    data,       \* the dictionary read_xrdml builds and returns
    k,          \* the index of the next scan of the scan loop
    axisType,   \* the local variable axisType
    pc,         \* the position in read_xrdml
    err,        \* the exception raised, "" when none
    log         \* the outcomes of the calls the caller made before this one

vars == <<doc, data, k, axisType, pc, err, log>>

nb_scans == Len(doc.scans)

Fail(e) ==
    /\ pc' = "error"
    /\ err' = e
    /\ UNCHANGED <<doc, data, k, axisType, log>>

Goto(next, d) ==
    /\ pc' = next
    /\ data' = d
    /\ UNCHANGED <<doc, k, axisType, err, log>>

\* a variant without the path check: the parser finds no file to read
OpenUnchecked ==
    /\ pc = "open"
    /\ IF ~doc.exists THEN Fail("IOError")
       ELSE Goto("header", [key \in {"filename", "sample", "status", "comment"} |->
                               CASE key = "filename" -> doc.filename
                                 [] key = "sample" -> doc.sample
                                 [] key = "status" -> doc.status
                                 [] key = "comment" -> doc.comment])

\* a variant whose dict is the one of the call before (a dict kept between
\* calls, as a mutable default argument is)
OpenShared ==
    /\ pc = "open"
    /\ IF ~doc.exists THEN Fail("ValueError")
       ELSE Goto("header", [key \in {"filename", "sample", "status", "comment"} |->
                               CASE key = "filename" -> doc.filename
                                 [] key = "sample" -> doc.sample
                                 [] key = "status" -> doc.status
                                 [] key = "comment" -> doc.comment]
                           @@ (IF log = <<>> THEN data ELSE log[Len(log)].data))

\* lines 252-279: the path check and the document-level fields
Open ==
    /\ pc = "open"
    /\ IF ~doc.exists THEN Fail("ValueError")
       ELSE Goto("header", [key \in {"filename", "sample", "status", "comment"} |->
                               CASE key = "filename" -> doc.filename
                                 [] key = "sample" -> doc.sample
                                 [] key = "status" -> doc.status
                                 [] key = "comment" -> doc.comment])

\* a variant that reads the reflection whatever the number of scans
ReadReflectionAlways(d) ==
    LET refl == doc.scans[1].reflection
    IN  IF nb_scans = 0 THEN Ok(d)
        ELSE IF refl.some /\ refl.hkl.some
        THEN Ok(Put(Put(d, "substrate", refl.material), "hkl",
                    [t |-> "dict", sh |-> <<>>,
                     v |-> <<refl.hkl.h, refl.hkl.k, refl.hkl.l>>]))
        ELSE IF refl.some THEN Raise("TypeError")
        ELSE Ok(Put(Put(d, "substrate", None), "hkl",
                    [t |-> "str", sh |-> <<>>, v |-> <<>>]))

\* lines 286-299: (h k l) and substrate, read when there is more than one scan
ReadReflection(d) ==
    IF nb_scans > 1
    THEN LET refl == doc.scans[1].reflection
         IN  IF refl.some
             THEN IF refl.hkl.some
                  THEN Ok(Put(Put(d, "substrate", refl.material), "hkl",
                              [t |-> "dict", sh |-> <<>>,
                               v |-> <<refl.hkl.h, refl.hkl.k, refl.hkl.l>>]))
                  ELSE Raise("TypeError")
             ELSE Ok(Put(Put(d, "substrate", None), "hkl",
                         [t |-> "str", sh |-> <<>>, v |-> <<>>]))
    ELSE Ok(d)

\* a variant that reads the step axis whatever the measurement type
ReadTypesStepAlways(d) ==
    LET d1 == Put(Put(d, "measType", doc.measType), "stepAxis", doc.stepAxis)
        d2 == IF nb_scans > 0
              THEN Put(d1, "scanAxis", doc.scans[1].scanAxis) ELSE d1
    IN  [key \in Range(PrimaryKeys) \cup Range(IncidentalKeys) |-> EmptyList] @@ d2

\* lines 301-317: measurement type, step axis, scan axis, the empty buckets
ReadTypes(d) ==
    LET d1 == Put(d, "measType", doc.measType)
        d2 == IF doc.measType \notin {"Scan", "Repeated scan"}
              THEN Put(d1, "stepAxis", doc.stepAxis) ELSE d1
        d3 == IF nb_scans > 0
              THEN Put(d2, "scanAxis", doc.scans[1].scanAxis) ELSE d2
    IN  [key \in Range(PrimaryKeys) \cup Range(IncidentalKeys) |-> EmptyList] @@ d3

\* lines 281-317
Header ==
    /\ pc = "header"
    /\ LET r == ReadReflection(data)
       IN  IF ~r.ok THEN Fail(r.err)
           ELSE IF ~doc.hasRoot THEN Fail("AttributeError")
           ELSE Goto("scans", ReadTypes(r.val))

ListAppend(d, key, item) == Put(d, key, List(Append(d[key].v, item)))

\* a variant of the test that requires both conditions
IsPrimaryBoth(measType, status) == measType = "Scan" /\ status = "Completed"

\* line 322: the completeness test
IsPrimary(measType, status) == measType = "Scan" \/ status = "Completed"

\* lines 328-342: the scan goes to the incidental bucket
RECURSIVE AppendIncidental(_, _, _)
AppendIncidental(d, scan, i) ==
    IF i > Len(StageKeys) THEN d
    ELSE AppendIncidental(
            IF StageKeys[i] \in DOMAIN scan
            THEN ListAppend(d, IncidentalKeys[i + 5], scan[StageKeys[i]])
            ELSE d, scan, i + 1)

SortIncidental(d, scan, n) ==
    IF ~({"2Theta", "Omega"} \subseteq DOMAIN scan) THEN Raise("KeyError")
    ELSE Ok(AppendIncidental(
            ListAppend(ListAppend(ListAppend(ListAppend(ListAppend(d,
                "iscannb", n), "idata", scan["data"]), "itime", scan["time"]),
                "i2Theta", scan["2Theta"]), "iOmega", scan["Omega"]),
            scan, 1))

\* lines 320-342: one pass of the scan loop, for scan n
SortScan(d, n) ==
    LET scan == _get_scan_data(doc.scans, n)
    IN  IF ~scan.ok THEN scan
        ELSE IF IsPrimary(d["measType"], scan.val["status"])
        THEN AppendKeys(ListAppend(d, "scannb", n), scan.val, StackedKeys, 1)
        ELSE SortIncidental(d, scan.val, n)

ScanStep ==
    /\ pc = "scans"
    /\ k < nb_scans
    /\ LET r == SortScan(data, k)
       IN  IF ~r.ok THEN Fail(r.err)
           ELSE /\ data' = r.val
                /\ k' = k + 1
                /\ UNCHANGED <<doc, axisType, pc, err, log>>

\* lines 349-353: move every non-empty incidental field to its primary key
RECURSIVE MoveKeys(_, _)
MoveKeys(d, i) ==
    IF i > Len(PrimaryKeys) THEN d
    ELSE MoveKeys(
            IF IncidentalKeys[i] \in DOMAIN d /\ Len(d[IncidentalKeys[i]].v) > 0
            THEN Put(Put(d, PrimaryKeys[i], d[IncidentalKeys[i]]),
                     IncidentalKeys[i], EmptyList)
            ELSE d, i + 1)

\* a variant that promotes whenever no scan is primary
PromoteAny ==
    /\ pc = "scans"
    /\ k = nb_scans
    /\ Goto("prune",
            IF IsEmptyList(data["scannb"]) /\ Len(data["iscannb"].v) >= 1
            THEN MoveKeys(data, 1) ELSE data)

\* lines 344-353: the promotion of a lone incomplete scan
Promote ==
    /\ pc = "scans"
    /\ k = nb_scans
    /\ Goto("prune",
            IF IsEmptyList(data["scannb"]) /\ Len(data["iscannb"].v) = 1
            THEN MoveKeys(data, 1) ELSE data)

\* a variant that keeps the incidental keys when they are empty
PruneStages ==
    /\ pc = "prune"
    /\ Goto("reduce",
            Pop(data, {key \in Range(StageKeys) : IsEmptyList(data[key])}))

\* lines 381-385: remove redundant information
Prune ==
    /\ pc = "prune"
    /\ LET d1 == Pop(data, {key \in Range(StageKeys) : IsEmptyList(data[key])})
       IN  Goto("reduce",
                IF IsEmptyList(d1["iscannb"]) THEN Pop(d1, Range(IncidentalKeys))
                ELSE d1)

\* lines 387-395
ReduceAll(d) ==
    ReduceKeys(d,
        <<"time">>
        \o (IF d["measType"] # "Area measurement" THEN <<"2Theta", "Omega">> ELSE <<>>)
        \o (IF nb_scans > 1 THEN StageKeys ELSE <<>>), 1)

Reduce ==
    /\ pc = "reduce"
    /\ LET r == ReduceAll(data)
       IN  IF ~r.ok THEN Fail(r.err) ELSE Goto("repeated", r.val)

(***************************************************************************)
(* 'Repeated scan': the average of the completed scans (lines 397-410)     *)
(***************************************************************************)
RECURSIVE SumRows(_, _, _)
\* the sum of column j over rows 1..r of the two-dimensional array a
SumRows(a, j, r) ==
    IF r = 0 THEN Num(0)
    ELSE RAdd(SumRows(a, j, r - 1), a.v[(r - 1) * a.sh[2] + j])

RECURSIVE SumItems(_, _)
SumItems(a, r) == IF r = 0 THEN Num(0) ELSE RAdd(SumItems(a, r - 1), a.v[r])

\* lines 401-403: a[0] += a[j] for j = 1..n-1, then a[0] / n
Average(a, n) ==
    IF NDim(a) = 0 \/ PyLen(a) < n \/ PyLen(a) = 0 THEN Raise("IndexError")
    ELSE IF NDim(a) = 2
    THEN Ok(Nd(<<a.sh[2]>>, [j \in 1..a.sh[2] |->
                RDiv(SumRows(a, j, n), Num(n))]))
    ELSE Ok(Nd(<<>>, <<RDiv(SumItems(a, n), Num(n))>>))

\* line 408: data['time'] *= n
Times(a, n) == Nd(a.sh, [i \in 1..Size(a) |-> RMul(a.v[i], Num(n))])

RepeatedScan(d) ==
    LET n == Len(d["scannb"].v)
        avg == Average(d["data"], n)
    IN  IF ~avg.ok THEN avg
        ELSE LET r == ReduceKeys(Put(d, "data", avg.val),
                                 <<"2Theta", "Omega">> \o StageKeys, 1)
             IN  IF ~r.ok THEN r
                 ELSE Ok(Pop(Put(r.val, "time", Times(r.val["time"], n)),
                             {"scannb"}))

Repeated ==
    /\ pc = "repeated"
    /\ IF data["measType"] = "Repeated scan"
       THEN LET r == RepeatedScan(data)
            IN  IF ~r.ok THEN Fail(r.err) ELSE Goto("wavelength", r.val)
       ELSE Goto("wavelength", data)

(***************************************************************************)
(* The wavelength (lines 412-427)                                          *)
(***************************************************************************)
\* a variant that leaves the weighted sum undivided
LambdaUnscaled(kType, kAlpha1, kAlpha2, kAlphaRatio) ==
    IF kType = "K-Alpha" THEN RAdd(kAlpha1, RMul(kAlphaRatio, kAlpha2))
    ELSE kAlpha1

Lambda(kType, kAlpha1, kAlpha2, kAlphaRatio) ==
    IF kType = "K-Alpha 1" THEN kAlpha1
    ELSE IF kType = "K-Alpha"
    THEN RDiv(RAdd(kAlpha1, RMul(kAlphaRatio, kAlpha2)), <<3, 2>>)
    ELSE kAlpha1

\* a variant that takes the usedWavelength element for optional
WavelengthOptional ==
    /\ pc = "wavelength"
    /\ Goto("xlabel", data)

Wavelength ==
    /\ pc = "wavelength"
    /\ LET w == doc.usedWavelength
       IN  IF ~w.some THEN Fail("AttributeError")
           ELSE IF ~(w.kAlpha1.some /\ w.kAlpha2.some /\ w.kBeta.some /\ w.ratio.some)
           THEN Fail("TypeError")
           ELSE Goto("xlabel",
                    [key \in {"kType", "kAlpha1", "kAlpha2", "kBeta", "kAlphaRatio", "Lambda"} |->
                        CASE key = "kType" -> w.intended
                          [] key = "kAlpha1" -> w.kAlpha1.val
                          [] key = "kAlpha2" -> w.kAlpha2.val
                          [] key = "kBeta" -> w.kBeta.val
                          [] key = "kAlphaRatio" -> w.ratio.val
                          [] key = "Lambda" -> Lambda(w.intended, w.kAlpha1.val,
                                                      w.kAlpha2.val, w.ratio.val)]
                    @@ data)

(***************************************************************************)
(* Labels and units (lines 429-497)                                        *)
(***************************************************************************)
\* a variant without the default branch: a name it does not know is
\* taken for the name of an axis, as in the branch before
ScanAxisLookupNoDefault(scanAxis, measType) ==
    LET oneD == measType \in {"Scan", "Repeated scan"}
    IN  IF scanAxis = "Gonio"
        THEN [axisType |-> "2Theta", key |-> "xlabel", label |-> "2Theta-Theta",
              x |-> IF oneD THEN "2Theta" ELSE ""]
        ELSE IF scanAxis \in {"2Theta", "2Theta-Omega"}
        THEN [axisType |-> "2Theta", key |-> "xlabel", label |-> scanAxis,
              x |-> IF oneD THEN "2Theta" ELSE ""]
        ELSE IF scanAxis \in {"Omega", "Omega-2Theta"}
        THEN [axisType |-> "Omega", key |-> "xlabel", label |-> scanAxis,
              x |-> IF oneD THEN "Omega" ELSE ""]
        ELSE IF scanAxis = "Reciprocal Space"
        THEN [axisType |-> "Omega", key |-> "xlabel", label |-> "Omega",
              x |-> IF oneD THEN "Omega" ELSE ""]
        ELSE [axisType |-> scanAxis, key |-> "xlable", label |-> scanAxis,
              x |-> IF measType = "Scan" THEN scanAxis ELSE ""]

\* lines 432-460: the physical axis, the key the label is stored under, the
\* label, and the field copied to x ("" when none is)
ScanAxisLookup(scanAxis, measType) ==
    LET oneD == measType \in {"Scan", "Repeated scan"}
    IN  IF scanAxis = "Gonio"
        THEN [axisType |-> "2Theta", key |-> "xlabel", label |-> "2Theta-Theta",
              x |-> IF oneD THEN "2Theta" ELSE ""]
        ELSE IF scanAxis \in {"2Theta", "2Theta-Omega"}
        THEN [axisType |-> "2Theta", key |-> "xlabel", label |-> scanAxis,
              x |-> IF oneD THEN "2Theta" ELSE ""]
        ELSE IF scanAxis \in {"Omega", "Omega-2Theta"}
        THEN [axisType |-> "Omega", key |-> "xlabel", label |-> scanAxis,
              x |-> IF oneD THEN "Omega" ELSE ""]
        ELSE IF scanAxis = "Reciprocal Space"
        THEN [axisType |-> "Omega", key |-> "xlabel", label |-> "Omega",
              x |-> IF oneD THEN "Omega" ELSE ""]
        ELSE IF scanAxis \in {"Phi", "Psi", "X", "Y", "Z"}
        THEN [axisType |-> scanAxis, key |-> "xlable", label |-> scanAxis,
              x |-> IF measType = "Scan" THEN scanAxis ELSE ""]
        ELSE [axisType |-> "unknown", key |-> "xlabel", label |-> "unknown",
              x |-> ""]

\* lines 472-487
StepAxisLookup(stepAxis) ==
    IF stepAxis = "Gonio"
    THEN [axisType |-> "2Theta", key |-> "ylabel", label |-> "2Theta-Theta"]
    ELSE IF stepAxis \in {"2Theta", "2Theta-Omega"}
    THEN [axisType |-> "2Theta", key |-> "ylabel", label |-> stepAxis]
    ELSE IF stepAxis \in {"Omega", "Omega-2Theta"}
    THEN [axisType |-> "Omega", key |-> "ylabel", label |-> stepAxis]
    ELSE IF stepAxis \in {"Phi", "Psi", "X", "Y", "Z"}
    THEN [axisType |-> stepAxis, key |-> "ylabel", label |-> stepAxis]
    ELSE [axisType |-> "unknown", key |-> "ylabel", label |-> "unknown"]

\* pos.get(name) for a child of a positions element: startPosition,
\* endPosition, commonPosition and listPositions carry no attribute
KidGet(kid, name) == None

\* xrdm.find('xrdMeasurement/scan[1]/dataPoints/positions'): the first
\* positions element of the first scan
FirstPositions ==
    IF nb_scans = 0 \/ Len(doc.scans[1].positions) = 0
    THEN [some |-> FALSE, kids |-> <<>>]
    ELSE [some |-> TRUE, kids |-> doc.scans[1].positions[1].kids]

\* lines 462-469 and 490-497: `for pos in uid`, the first pos whose axis
\* attribute is the physical axis gives the unit; 'nd' when there is none
UnitOf(kids, axis) ==
    LET hits == {i \in 1..Len(kids) : KidGet(kids[i], "axis") = axis}
    IN  IF hits = {} THEN "nd"
        ELSE KidGet(kids[CHOOSE i \in hits : \A j \in hits : i <= j], "unit")

XLabel ==
    /\ pc = "xlabel"
    /\ IF nb_scans > 0 /\ "scanAxis" \in DOMAIN data
       THEN LET r == ScanAxisLookup(data["scanAxis"], data["measType"])
                d1 == Put(data, r.key, r.label)
            IN  IF r.x # "" /\ r.x \notin DOMAIN data THEN Fail("KeyError")
                ELSE IF ~FirstPositions.some THEN Fail("TypeError")
                ELSE /\ pc' = "ylabel"
                     /\ axisType' = r.axisType
                     /\ data' = Put(IF r.x # "" THEN Put(d1, "x", data[r.x]) ELSE d1,
                                    "xunit", UnitOf(FirstPositions.kids, r.axisType))
                     /\ UNCHANGED <<doc, k, err, log>>
       ELSE Goto("ylabel", data)

YLabel ==
    /\ pc = "ylabel"
    /\ IF nb_scans > 0 /\ "stepAxis" \in DOMAIN data
       THEN LET r == StepAxisLookup(data["stepAxis"])
            IN  IF ~FirstPositions.some THEN Fail("TypeError")
                ELSE /\ pc' = "area"
                     /\ axisType' = r.axisType
                     /\ data' = Put(Put(data, r.key, r.label), "yunit",
                                    UnitOf(FirstPositions.kids, r.axisType))
                     /\ UNCHANGED <<doc, k, err, log>>
       ELSE Goto("area", data)

(***************************************************************************)
(* Area measurement: Omega is given the shape of 2Theta (lines 499-507)    *)
(***************************************************************************)
\* a variant that leaves Omega as it is
BroadcastOmegaNot(tt, om) == Ok(om)

\* lines 503-506: tmp[:, j] = Omega.T for every column j of 2Theta
BroadcastOmega(tt, om) ==
    IF tt.sh[2] = 0 THEN Ok(Nd(tt.sh, <<>>))
    ELSE IF om.sh[2] # 1 \/ om.sh[1] \notin {1, tt.sh[1]} THEN Raise("ValueError")
    ELSE Ok(Nd(tt.sh, [i \in 1..Size(tt) |->
                om.v[IF om.sh[1] = 1 THEN 1 ELSE ((i - 1) \div tt.sh[2]) + 1]]))

AreaMeasurement(d) ==
    IF IsList(d["2Theta"]) \/ IsList(d["Omega"]) THEN Raise("AttributeError")
    ELSE IF NDim(d["2Theta"]) < 2 \/ NDim(d["Omega"]) < 2 THEN Raise("IndexError")
    ELSE IF d["2Theta"].sh[2] # d["Omega"].sh[2]
    THEN IF "scanAxis" \notin DOMAIN d THEN Raise("KeyError")
         ELSE IF d["scanAxis"] = "2Theta" /\ d["stepAxis"] = "Omega"
         THEN LET r == BroadcastOmega(d["2Theta"], d["Omega"])
              IN  IF r.ok THEN Ok(Put(d, "Omega", r.val)) ELSE r
         ELSE Ok(d)
    ELSE Ok(d)

AreaFix ==
    /\ pc = "area"
    /\ IF data["measType"] = "Area measurement"
       THEN LET r == AreaMeasurement(data)
            IN  IF ~r.ok THEN Fail(r.err) ELSE Goto("optional", r.val)
       ELSE Goto("optional", data)

\* lines 509-527: mask width and divergence slit height, then the return
Finish ==
    /\ pc = "optional"
    /\ LET d1 == IF doc.maskWidth.some
                 THEN Put(data, "maskWidth", doc.maskWidth.val) ELSE data
       IN  Goto("done",
                IF doc.slitHeight.some
                THEN Put(d1, "slitHeight", doc.slitHeight.val) ELSE d1)

Next ==
    \/ Open
    \/ Header
    \/ ScanStep
    \/ Promote
    \/ Prune
    \/ Reduce
    \/ Repeated
    \/ Wavelength
    \/ XLabel
    \/ YLabel
    \/ AreaFix
    \/ Finish

(***************************************************************************)
(* The documents decoded.  All scans of a document share their structure   *)
(* (number of points, unit, encodings of the axes), as the scans of one    *)
(* measurement do; the intensities differ from scan to scan.               *)
(***************************************************************************)
Statuses == {"Completed", "Aborted"}
MeasTypes == {"Scan", "Repeated scan", "Area measurement", "Stress measurement"}
ScanAxisNames ==
    {"Gonio", "2Theta", "2Theta-Omega", "Omega", "Omega-2Theta",
     "Reciprocal Space", "Phi", "Psi", "X", "Y", "Z"}
\* "Time" stands for the names the lookups do not know
AxisNameInputs == ScanAxisNames \cup {"Time"}
Encodings == {"range", "flat", "common", "list"}

\* the children of a positions element for an encoding, from value b on
Encode(enc, b, n) ==
    CASE enc = "range" -> <<Kid("startPosition", <<b>>), Kid("endPosition", <<b + 30>>)>>
      [] enc = "flat" -> <<Kid("startPosition", <<b>>), Kid("endPosition", <<b>>)>>
      [] enc = "common" -> <<Kid("commonPosition", <<b>>)>>
      [] enc = "list" -> <<Kid("listPositions", [j \in 1..n |-> b + 2 * j])>>

\* the intensities of scan i (from 0): they differ by scan and by point
IntensitiesOf(i, n) == [j \in 1..n |-> 6 * (i + 1) + 2 * j]

StageBlocks(stages) ==
    IF stages
    THEN <<Positions("Phi", "deg", Encode("common", 0, 0)),
           Positions("Psi", "deg", Encode("common", -1, 0)),
           Positions("X", "mm", Encode("common", 2, 0)),
           Positions("Y", "mm", Encode("common", 1, 0)),
           Positions("Z", "mm", Encode("common", 9, 0))>>
    ELSE <<>>

\* a template: the structure the scans of one document share
Template(n, unit, enc2T, encOm, stages, step) ==
    [n |-> n, unit |-> unit, enc2T |-> enc2T, encOm |-> encOm,
     stages |-> stages, step |-> step]

MkScan(i, status, scanAxis, tp) ==
    [status |-> status,
     scanAxis |-> scanAxis,
     mode |-> "Continuous",
     unit |-> tp.unit,
     intensities |-> Text(IntensitiesOf(i, tp.n)),
     countingTimes |-> NoText,
     commonCountingTime |-> Text(<<2>>),
     positions |-> <<Positions("2Theta", "deg", Encode(tp.enc2T, 10, tp.n)),
                     Positions("Omega", "deg", Encode(tp.encOm, 5 + i * tp.step, tp.n))>>
                   \o StageBlocks(tp.stages),
     reflection |-> [some |-> TRUE, material |-> "SrTiO3",
                     hkl |-> [some |-> TRUE, h |-> 0, k |-> 1, l |-> 3]]]

Some(x) == [some |-> TRUE, val |-> x]
Nothing == [some |-> FALSE, val |-> <<0, 1>>]

MkDoc(measType, stepAxis, scanAxis, statuses, tp) ==
    [exists |-> TRUE,
     hasRoot |-> TRUE,
     filename |-> "test.xrdml",
     sample |-> "B10135",
     status |-> "Completed",
     comment |-> "",
     measType |-> measType,
     stepAxis |-> stepAxis,
     scans |-> [i \in 1..Len(statuses) |-> MkScan(i - 1, statuses[i], scanAxis, tp)],
     usedWavelength |-> [some |-> TRUE, intended |-> "K-Alpha 1",
                         kAlpha1 |-> Some(<<770299, 500000>>),
                         kAlpha2 |-> Some(<<772213, 500000>>),
                         kBeta |-> Some(<<139225, 100000>>),
                         ratio |-> Some(<<1, 2>>)],
     maskWidth |-> Nothing,
     slitHeight |-> Some(<<19, 100>>)]

\* all sequences of statuses of 0 .. MaxScans scans
StatusSeqs == UNION {[1..n -> Statuses] : n \in 0..MaxScans}
CompletedSeqs == {[i \in 1..n |-> "Completed"] : n \in 1..MaxScans}

\* the templates of the aggregation family: every pair of encodings, with
\* counts, the stage axes and one Omega for all scans; and one variation
\* of each of the three
AggTemplates ==
    {Template(n, "counts", e2, eo, TRUE, 0) :
        n \in 1..MaxPoints, e2 \in Encodings, eo \in {"range", "common"}}
    \cup {Template(n, "cps", e2, "range", TRUE, 0) :
        n \in 1..MaxPoints, e2 \in {"range", "flat"}}
    \cup {Template(n, "counts", "range", eo, FALSE, 0) :
        n \in 1..MaxPoints, eo \in {"range", "common"}}
    \cup {Template(n, "counts", e2, "common", TRUE, 1) :
        n \in 1..MaxPoints, e2 \in {"range", "common"}}

\* scans of every status under every measurement type
DocsAgg ==
    {MkDoc(mt, IF mt \in {"Scan", "Repeated scan"} THEN None ELSE "Omega",
           "2Theta-Omega", st, tp) :
        mt \in MeasTypes, st \in StatusSeqs, tp \in AggTemplates}

AxesTemplates ==
    {Template(n, "counts", e[1], e[2], TRUE, 1) :
        n \in 1..MaxPoints,
        e \in {<<"range", "common">>, <<"common", "range">>, <<"range", "range">>}}

\* completed scans under every scan axis and step axis name
DocsAxes ==
    {MkDoc(mt, None, sa, st, tp) :
        mt \in {"Scan", "Repeated scan"}, sa \in AxisNameInputs,
        st \in CompletedSeqs, tp \in AxesTemplates}
    \cup {MkDoc(mt, ya, sa, st, tp) :
        mt \in {"Area measurement", "Stress measurement"},
        sa \in AxisNameInputs, ya \in AxisNameInputs,
        st \in CompletedSeqs, tp \in AxesTemplates}

\* one document of each kind, varied by the families below
PlainScan(n) ==
    MkDoc("Scan", None, "2Theta-Omega", <<"Completed">>,
          Template(n, "counts", "range", "common", TRUE, 0))
PlainArea(nb, n) ==
    MkDoc("Area measurement", "Omega", "2Theta", [i \in 1..nb |-> "Completed"],
          Template(n, "counts", "range", "common", TRUE, 1))

\* the usedWavelength element: every intended tag, the attribute absent
\* (None), two ratios; and the element, or one of its children, absent
Wavelengths ==
    {[some |-> TRUE, intended |-> tag,
      kAlpha1 |-> Some(<<77, 50>>), kAlpha2 |-> Some(<<31, 20>>),
      kBeta |-> Some(<<7, 5>>), ratio |-> Some(r)] :
        tag \in {"K-Alpha 1", "K-Alpha", "K-Beta", "", None},
        r \in {<<0, 1>>, <<1, 2>>}}
    \cup {[some |-> present, intended |-> "K-Alpha",
           kAlpha1 |-> Some(<<77, 50>>), kAlpha2 |-> Nothing,
           kBeta |-> Some(<<7, 5>>), ratio |-> Some(<<1, 2>>)] :
        present \in BOOLEAN}

DocsWave ==
    {[d EXCEPT !.usedWavelength = w] :
        d \in {PlainScan(MaxPoints), PlainArea(2, MaxPoints)}, w \in Wavelengths}

\* the reflection element of the first scan: present, absent, without hkl
Reflections ==
    {[some |-> TRUE, material |-> "SrTiO3",
      hkl |-> [some |-> TRUE, h |-> 0, k |-> 1, l |-> 3]],
     [some |-> TRUE, material |-> "SrTiO3",
      hkl |-> [some |-> FALSE, h |-> 0, k |-> 0, l |-> 0]],
     [some |-> FALSE, material |-> None,
      hkl |-> [some |-> FALSE, h |-> 0, k |-> 0, l |-> 0]]}

DocsRefl ==
    {[d EXCEPT !.scans[1].reflection = r] :
        d \in {MkDoc(mt, IF mt = "Scan" THEN None ELSE "Omega", "2Theta",
                     [i \in 1..nb |-> "Completed"],
                     Template(n, "counts", "range", "common", TRUE, 1)) :
                 mt \in {"Scan", "Area measurement"}, nb \in 1..MaxScans,
                 n \in 1..MaxPoints},
        r \in Reflections}

\* well-formed documents of one or two scans, the bases of the families
\* below (an 'Area measurement' needs two scans to have grids)
BaseDocs ==
    {d \in {MkDoc(mt, IF mt = "Scan" THEN None ELSE "Omega", "2Theta",
                  [i \in 1..nb |-> "Completed"],
                  Template(n, unit, "range", "common", TRUE, 1)) :
               mt \in {"Scan", "Area measurement", "Stress measurement"},
               nb \in 1..2, n \in 1..MaxPoints, unit \in {"counts", "cps"}} :
        d.measType = "Area measurement" => Len(d.scans) = 2}

\* scans measured in mode 'Pre-set counts': one counting time per point
PresetTimes(d) ==
    [d EXCEPT !.scans = [i \in 1..Len(d.scans) |->
        [d.scans[i] EXCEPT
            !.mode = "Pre-set counts",
            !.countingTimes = Text([j \in 1..Len(d.scans[i].intensities.nums) |-> j + 1]),
            !.commonCountingTime = NoText]]]

DocsTime == {PresetTimes(d) : d \in BaseDocs}

\* the scans in S list m positions for the axis of their positions element ax
ListedPositions(d, ax, m, S) ==
    [d EXCEPT !.scans = [i \in 1..Len(d.scans) |->
        IF i \in S
        THEN [d.scans[i] EXCEPT !.positions[ax].kids =
                 <<Kid("listPositions", [j \in 1..m |-> 10 + 2 * j])>>]
        ELSE d.scans[i]]]

\* documents whose first scan, or every scan, lists a number of positions
\* that differs from its number of intensities; the other scans list as many
DocsMismatch ==
    {ListedPositions(
        ListedPositions(d, ax, Len(d.scans[1].intensities.nums), 1..Len(d.scans)),
        ax, m, S) :
        d \in {b \in BaseDocs : b.scans[1].unit = "counts"},
        ax \in 1..2, m \in 1..(MaxPoints + 1), S \in {{1}, {1, 2}}}

\* a positions element of an axis the reader does not know
OtherAxis(enc) == Positions("Chi", "deg", Encode(enc, 3, 0))

\* documents with a scan that has no intensities element, and documents
\* whose scans hold a positions element of an unknown axis, first or last
DocsMalformed ==
    UNION {{[d EXCEPT !.scans[i].intensities = NoText] : i \in 1..Len(d.scans)} :
              d \in {b \in BaseDocs : b.scans[1].unit = "counts"}}
    \cup {[d EXCEPT !.scans = [i \in 1..Len(d.scans) |->
              [d.scans[i] EXCEPT !.positions =
                  IF first THEN <<OtherAxis(enc)>> \o @ ELSE @ \o <<OtherAxis(enc)>>]]] :
        d \in {b \in BaseDocs : b.scans[1].unit = "counts"},
        enc \in {"common", "range"}, first \in BOOLEAN}

\* documents without the usedWavelength element, of every measurement type
\* and every number of scans
DocsNoWave ==
    {[d EXCEPT !.usedWavelength.some = FALSE] :
        d \in {MkDoc(mt, IF mt \in {"Scan", "Repeated scan"} THEN None ELSE "Omega",
                     "2Theta", [i \in 1..nb |-> "Completed"],
                     Template(MaxPoints, "counts", "range", "common", TRUE, 1)) :
                 mt \in MeasTypes, nb \in 0..MaxScans}}

\* a document without the xrdMeasurement element: it has no measurement
\* type, no scan and no usedWavelength element, which all lie below it
DocsNoRoot ==
    {[d EXCEPT !.hasRoot = FALSE, !.measType = None, !.sample = name,
               !.usedWavelength.some = FALSE] :
        d \in {MkDoc("Scan", None, "2Theta", <<>>,
                     Template(1, "counts", "range", "common", TRUE, 1))},
        name \in {"B10135", None}}

\* paths at which there is no file
DocsNoFile ==
    {[d EXCEPT !.exists = FALSE, !.filename = name] :
        d \in {PlainScan(1)}, name \in {"missing.xrdml", "missing", ""}}

Docs ==
    DocsAgg \cup DocsAxes \cup DocsWave \cup DocsRefl \cup DocsTime
        \cup DocsMismatch \cup DocsMalformed
        \cup DocsNoWave \cup DocsNoRoot \cup DocsNoFile

Init ==
    /\ doc \in Docs
    /\ data = [key \in {} |-> EmptyList]
    /\ k = 0
    /\ axisType = None
    /\ pc = "open"
    /\ err = ""
    /\ log = <<>>

Spec == Init /\ [][Next]_vars

Returned == pc = "done"
Raised == pc = "error"

(***************************************************************************)
(* One call of _read_axis_info(uid_pos, n).  In this specification doc     *)
(* holds the arguments of the call, [pos, n], and data the dictionary      *)
(* `info` the call returns.                                                *)
(***************************************************************************)
\* the tag of a child that _read_axis_info does not support
OtherTag == "unspacedPositions"

SupportedTags == {"listPositions", "startPosition", "endPosition", "commonPosition"}

PosValues == (0 - MaxPos)..MaxPos

\* the children of the positions elements decoded
AxisKids ==
    {<<Kid("startPosition", <<a>>), Kid("endPosition", <<b>>)>> :
        a \in PosValues, b \in PosValues}
    \cup {<<Kid("endPosition", <<b>>), Kid("startPosition", <<a>>)>> :
        a \in {0, 1}, b \in {0 - 1, 2}}
    \cup {<<Kid("commonPosition", <<a>>)>> : a \in PosValues}
    \cup {<<Kid("listPositions", [j \in 1..m |-> a + 2 * j])>> :
        a \in {0, 1}, m \in 0..MaxLen}
    \cup {<<Kid("startPosition", <<a>>)>> : a \in {0, 1}}
    \cup {<<>>}
    \cup {<<Kid(OtherTag, <<a>>)>> : a \in {0, 1}}
    \cup {<<Kid(OtherTag, <<0>>)>> \o rest :
        rest \in {<<Kid("startPosition", <<1>>), Kid("endPosition", <<2>>)>>,
                  <<Kid("commonPosition", <<1>>)>>,
                  <<Kid("listPositions", <<1, 2>>)>>}}
    \cup {rest \o <<Kid(OtherTag, <<0>>)>> :
        rest \in {<<Kid("startPosition", <<1>>), Kid("endPosition", <<2>>)>>,
                  <<Kid("commonPosition", <<1>>)>>,
                  <<Kid("listPositions", <<1, 2>>)>>}}
    \cup {<<Kid("listPositions", <<1, 2>>), Kid("commonPosition", <<1>>)>>}

AxisCalls ==
    {[pos |-> Positions(axis, "deg", kids), n |-> n] :
        axis \in {"Omega", "Chi"}, kids \in AxisKids, n \in 0..MaxLen}

InitAxis ==
    /\ doc \in AxisCalls
    /\ data = [key \in {} |-> EmptyList]
    /\ k = 0
    /\ axisType = None
    /\ pc = "axis"
    /\ err = ""
    /\ log = <<>>

\* lines 209-236: the dictionary returned, without 'data' when no child set it
ReadAxis ==
    /\ pc = "axis"
    /\ LET r == _read_axis_info(doc.pos, doc.n)
       IN  IF ~r.ok THEN Fail(r.err)
           ELSE Goto("axis_done",
                    IF r.val.has
                    THEN [key \in {"axis", "unit", "data"} |->
                            CASE key = "axis" -> r.val.axis
                              [] key = "unit" -> r.val.unit
                              [] key = "data" -> r.val.data]
                    ELSE [key \in {"axis", "unit"} |->
                            IF key = "axis" THEN r.val.axis ELSE r.val.unit])

NextAxis == ReadAxis

SpecAxis == InitAxis /\ [][NextAxis]_vars

(***************************************************************************)
(* Calls of read_xrdml one after the other.  log holds, for each call that *)
(* has ended, the document it read and what it gave: the dataset returned  *)
(* or the exception raised.  A call begins with the locals of line 239 on: *)
(* nothing of the call before is bound, the module holds no variable       *)
(* besides its logger (line 8).                                            *)
(***************************************************************************)
DocsCalls ==
    {PlainScan(MaxPoints), PlainArea(2, MaxPoints),
     MkDoc("Scan", None, "2Theta", <<"Completed", "Completed">>,
           Template(MaxPoints, "counts", "range", "common", TRUE, 1)),
     MkDoc("Repeated scan", None, "2Theta-Omega", <<"Completed", "Completed">>,
           Template(MaxPoints, "counts", "range", "common", TRUE, 0)),
     MkDoc("Scan", None, "2Theta-Omega", <<"Aborted">>,
           Template(MaxPoints, "cps", "range", "range", TRUE, 0)),
     [PlainScan(1) EXCEPT !.exists = FALSE, !.filename = "missing.xrdml"]}

InitCalls ==
    /\ doc \in DocsCalls
    /\ data = [key \in {} |-> EmptyList]
    /\ k = 0
    /\ axisType = None
    /\ pc = "open"
    /\ err = ""
    /\ log = <<>>

\* the call has returned or raised; the next call reads any document
NextCall ==
    /\ pc \in {"done", "error"}
    /\ Len(log) < MaxCalls - 1
    /\ log' = Append(log, [doc |-> doc, pc |-> pc, data |-> data, err |-> err])
    /\ doc' \in DocsCalls
    /\ data' = [key \in {} |-> EmptyList]
    /\ k' = 0
    /\ axisType' = None
    /\ pc' = "open"
    /\ err' = ""

NextCalls ==
    \/ Next
    \/ NextCall

SpecCalls == InitCalls /\ [][NextCalls]_vars

(***************************************************************************)
(* The coordinate transforms of src/xrdtools/utils.py.  In this            *)
(* specification doc holds the function called and its arguments, as the   *)
(* caller holds them (an ndarray argument is the caller's array), and data *)
(* the tuple the call returns.  np.sqrt is computed exactly, on the        *)
(* squares the arguments below give it; a division of floats by zero gives *)
(* inf, -inf or nan, written <<1, 0>>, <<-1, 0>>, <<0, 0>>.  The           *)
(* trigonometric functions are left as terms <<name, argument, ...>>.      *)
(***************************************************************************)
\* a Python float
Float(q) == [t |-> "float", sh |-> <<>>, v |-> <<q>>]

\* the largest i in lo..hi with i * i <= n
RECURSIVE Root(_, _, _)
Root(n, lo, hi) ==
    IF lo >= hi THEN lo
    ELSE LET mid == (lo + hi + 1) \div 2
         IN  IF mid * mid <= n THEN Root(n, mid, hi) ELSE Root(n, lo, mid - 1)

\* np.sqrt of a fraction whose numerator and denominator are squares
Sqrt(q) == <<Root(q[1], 0, 2000), Root(q[2], 0, 2000)>>

Square(q) == RMul(q, q)

\* x / y of two floats: a zero divisor raises nothing
FloatDiv(x, y) ==
    IF y[1] # 0 THEN RDiv(x, y)
    ELSE IF x[1] > 0 THEN <<1, 0>>
    ELSE IF x[1] < 0 THEN <<-1, 0>>
    ELSE <<0, 0>>

\* a /= q and a *= q: on an ndarray the elements of a itself, on a float a
\* new float
DividedBy(a, q) == [a EXCEPT !.v = [i \in 1..Len(a.v) |-> FloatDiv(a.v[i], q)]]
MultipliedBy(a, q) == [a EXCEPT !.v = [i \in 1..Len(a.v) |-> RMul(a.v[i], q)]]

\* a reflection passed as a dict, and the argument left at None
Hkl(h, k_, l) == [given |-> TRUE, h |-> h, k |-> k_, l |-> l]
NoHkl == [given |-> FALSE, h |-> 0, k |-> 0, l |-> 0]
\* an argument the function called does not take
NoArg == [t |-> "absent", sh |-> <<>>, v |-> <<>>]

\* lines 78-79: the default reflection
HklOrDefault(hkl) == IF ~hkl.given THEN Hkl(0, 0, 1) ELSE hkl

\* line 82: np.sqrt((hkl['h'] / a) ** 2 + (hkl['k'] / b) ** 2)
InPlaneNorm(hkl, a, b) ==
    Sqrt(RAdd(Square(RDiv(Num(hkl.h), a)), Square(RDiv(Num(hkl.k), b))))

\* lines 47-56, for one pair of angles: (kpar, kperp)
QVector(tt, om, lam) ==
    LET t_rad == <<"div", <<"radians", tt>>, 2>>
        delta == <<"sub", t_rad, <<"radians", om>>>>
        delta_k == <<"mul", <<"div", 2, lam>>, <<"sin", t_rad>>>>
    IN  <<<<"mul", delta_k, <<"sin", delta>>>>, <<"mul", delta_k, <<"cos", delta>>>>>>

\* element i of an argument broadcast to n elements
Element(a, i) == IF Len(a.v) = 1 THEN a.v[1] ELSE a.v[i]

\* lines 116-123: (tt, omega, delta)
AnglesOf(hkl, lam, lattice) ==
    LET sq(i, a) == <<"pow", <<"div", i, a>>, 2>>
        inplane == <<"add", sq(hkl.h, lattice[1]), sq(hkl.k, lattice[2])>>
        d_hkl == <<"div", 1, <<"sqrt", <<"add", inplane, sq(hkl.l, lattice[3])>>>>>>
        theta == <<"degrees", <<"arcsin", <<"div", lam, <<"mul", 2, d_hkl>>>>>>>>
        offset_oop ==
            <<"degrees", <<"arctan",
                <<"div", <<"div", 1, <<"sqrt", sq(hkl.l, lattice[3])>>>>,
                         <<"div", 1, <<"sqrt", inplane>>>>>>>>>>
    IN  <<<<"mul", 2, theta>>, <<"sub", theta, offset_oop>>, offset_oop>>

\* the arrays and floats handed over
ArrayArgs ==
    {Nd(<<1>>, <<Num(1)>>), Nd(<<2>>, <<Num(1), Num(2)>>),
     Nd(<<2>>, <<Num(0), Num(0 - 3)>>), Float(Num(2))}

\* lattice parameters with the reflections whose in-plane norm is a square
LatticeArgs ==
    {[lattice |-> <<<<781, 200>>, <<781, 200>>, <<781, 200>>>>, hkl |-> h] :
        h \in {NoHkl, Hkl(1, 0, 3), Hkl(0, 2, 1)}}
    \cup {[lattice |-> <<Num(2), Num(2), Num(3)>>, hkl |-> h] :
        h \in {NoHkl, Hkl(3, 4, 1), Hkl(0 - 1, 0, 0)}}

UtilCalls ==
    {[fn |-> "q2hkl_map", x |-> x, y |-> y, lattice |-> la.lattice, hkl |-> la.hkl,
      lam |-> <<>>] :
        x \in ArrayArgs, y \in ArrayArgs, la \in LatticeArgs}
    \cup {[fn |-> "angle2qvector", x |-> tt, y |-> om, lattice |-> <<>>, hkl |-> NoHkl,
           lam |-> lam] :
        tt \in ArrayArgs, om \in ArrayArgs, lam \in {<<77, 50>>, <<7, 5>>}}
    \cup {[fn |-> "angles", x |-> NoArg, y |-> NoArg, lattice |-> la.lattice,
           hkl |-> la.hkl, lam |-> lam] :
        la \in LatticeArgs, lam \in {<<77, 50>>, <<7, 5>>}}

InitUtils ==
    /\ doc \in UtilCalls
    /\ data = <<>>
    /\ k = 0
    /\ axisType = None
    /\ pc = "call"
    /\ err = ""
    /\ log = <<>>

\* what a call leaves alone besides the arguments and the value returned
Return(args, value) ==
    /\ pc' = "returned"
    /\ doc' = args
    /\ data' = value
    /\ UNCHANGED <<k, axisType, err, log>>

\* utils.py lines 47-58
Angle2qvector ==
    /\ pc = "call"
    /\ doc.fn = "angle2qvector"
    /\ LET n == IF Len(doc.x.v) > Len(doc.y.v) THEN Len(doc.x.v) ELSE Len(doc.y.v)
           sh == IF NDim(doc.x) > NDim(doc.y) THEN doc.x.sh ELSE doc.y.sh
           q(i) == QVector(Element(doc.x, i), Element(doc.y, i), doc.lam)
       IN  Return(doc, <<Nd(sh, [i \in 1..n |-> q(i)[1]]),
                         Nd(sh, [i \in 1..n |-> q(i)[2]])>>)

\* utils.py lines 78-84: x /= ... and y *= c act on the arrays passed in
Q2hklMap ==
    /\ pc = "call"
    /\ doc.fn = "q2hkl_map"
    /\ LET hkl == HklOrDefault(doc.hkl)
           x == DividedBy(doc.x, InPlaneNorm(hkl, doc.lattice[1], doc.lattice[2]))
           y == MultipliedBy(doc.y, doc.lattice[3])
       IN  Return([doc EXCEPT !.x = IF IsNd(doc.x) THEN x ELSE @,
                              !.y = IF IsNd(doc.y) THEN y ELSE @],
                  <<x, y>>)

\* utils.py lines 109-125: hkl has no default here
Angles ==
    /\ pc = "call"
    /\ doc.fn = "angles"
    /\ IF ~doc.hkl.given THEN Fail("TypeError")
       ELSE Return(doc, AnglesOf(doc.hkl, doc.lam, doc.lattice))

NextUtils ==
    \/ Angle2qvector
    \/ Q2hklMap
    \/ Angles

SpecUtils == InitUtils /\ [][NextUtils]_vars

(***************************************************************************)
(* Properties                                                              *)
(***************************************************************************)
Increasing(s) == \A a, b \in 1..Len(s) : a < b => s[a] < s[b]

\* C1: after the scan loop has processed k scans, every scan index below k
\* is in exactly one of scannb and iscannb; it is in scannb if and only if
\* the document's measurementType is 'Scan' or the scan's status is
\* 'Completed'; and both lists are in increasing document order.
C1_Partition ==
    pc = "scans" =>
        LET P == data["scannb"].v
            I == data["iscannb"].v
        IN  /\ Len(P) + Len(I) = k
            /\ \A i \in 0..(k - 1) :
                /\ (i \in Range(P)) # (i \in Range(I))
                /\ (i \in Range(P)) <=>
                      (doc.measType = "Scan" \/ doc.scans[i + 1].status = "Completed")
            /\ Range(P) \cup Range(I) \subseteq 0..(k - 1)
            /\ Increasing(P)
            /\ Increasing(I)

\* the loop has sorted three scans and both buckets hold one
C1_Witness ==
    /\ pc = "scans"
    /\ k = nb_scans
    /\ k >= 3
    /\ Len(data["scannb"].v) >= 1
    /\ Len(data["iscannb"].v) >= 1

LoneIncomplete ==
    /\ doc.measType # "Scan"
    /\ nb_scans = 1
    /\ doc.scans[1].status # "Completed"

\* C2: a document that is not a 'Scan' and holds one scan, not completed,
\* yields a dataset with that scan as the only primary scan, its data, time
\* and axes under the primary names, and no incidental field.
C2_LonePromoted ==
    (LoneIncomplete /\ pc \in {"done", "error"}) =>
        /\ pc = "done"
        /\ "scannb" \in DOMAIN data => data["scannb"].v = <<0>>
        /\ {"data", "time", "2Theta", "Omega"} \subseteq DOMAIN data
        /\ Range(IncidentalKeys) \cap DOMAIN data = {}

\* the scans of a 'Repeated scan' document that are averaged
CompletedScans == {i \in 1..nb_scans : doc.scans[i].status = "Completed"}

\* the counts per second of point j of scan i, from the document
CpsAt(i, j) ==
    LET scan == doc.scans[i]
        t == IF scan.mode = "Pre-set counts" THEN scan.countingTimes.nums[j]
             ELSE scan.commonCountingTime.nums[1]
    IN  IF scan.unit = "counts" THEN Norm(scan.intensities.nums[j], t)
        ELSE Num(scan.intensities.nums[j])

RECURSIVE CpsSum(_, _)
\* the sum of point j over the completed scans among the first i
CpsSum(i, j) ==
    IF i = 0 THEN Num(0)
    ELSE IF i \in CompletedScans THEN RAdd(CpsSum(i - 1, j), CpsAt(i, j))
    ELSE CpsSum(i - 1, j)

PointsOf(i) == Len(doc.scans[i].intensities.nums)

\* data is the mean of the completed scans, time their total counting time
RepeatedMeanHolds ==
    LET n == Cardinality(CompletedScans)
        first == CHOOSE i \in CompletedScans : \A j \in CompletedScans : i <= j
    IN  /\ Size(data["data"]) = PointsOf(first)
        /\ \A j \in 1..PointsOf(first) :
              data["data"].v[j] = RDiv(CpsSum(nb_scans, j), Num(n))
        /\ Size(data["time"]) >= 1
        /\ \A j \in 1..Size(data["time"]) :
              data["time"].v[j] = Num(n * doc.scans[first].commonCountingTime.nums[1])

\* C3: for 'Repeated scan' with k >= 1 primary scans, the returned data is
\* the element-wise mean of the k per-scan counts-per-second arrays, one
\* value per measured point, and the returned time is k times the counting
\* time of one scan.
C3_RepeatedMean ==
    (pc = "done" /\ doc.measType = "Repeated scan" /\ CompletedScans # {}) =>
        RepeatedMeanHolds

ExpectedLabel(name) ==
    CASE name = "Gonio" -> "2Theta-Theta"
      [] name = "Reciprocal Space" -> "Omega"
      [] OTHER -> name

ExpectedPhysical(name) ==
    CASE name \in {"Gonio", "2Theta", "2Theta-Omega"} -> "2Theta"
      [] name \in {"Omega", "Omega-2Theta", "Reciprocal Space"} -> "Omega"
      [] OTHER -> name

AfterXLabel == pc \in {"ylabel", "area", "optional", "done"}

\* C4: with at least one scan and a recognised scan-axis name, the dataset
\* holds xlabel: '2Theta-Theta' for 'Gonio', 'Omega' for 'Reciprocal Space',
\* the name itself otherwise; and the unit lookup uses 2Theta, Omega or the
\* single-stage axis itself as the physical axis.
C4_XLabel ==
    (nb_scans > 0 /\ doc.scans[1].scanAxis \in ScanAxisNames) =>
        /\ AfterXLabel =>
              /\ "xlabel" \in DOMAIN data
              /\ data["xlabel"] = ExpectedLabel(doc.scans[1].scanAxis)
        /\ pc = "ylabel" => axisType = ExpectedPhysical(doc.scans[1].scanAxis)

\* the positions elements of the first scan for a physical axis
BlocksFor(axis) ==
    {i \in 1..Len(doc.scans[1].positions) : doc.scans[1].positions[i].axis = axis}

\* the unit of the first of them, 'nd' when there is none
ExpectedUnit(axis) ==
    IF BlocksFor(axis) = {} THEN "nd"
    ELSE doc.scans[1].positions[
            CHOOSE i \in BlocksFor(axis) : \A j \in BlocksFor(axis) : i <= j].unit

\* C5: xunit (yunit) is the unit attribute of the first scan's positions
\* element for the physical axis the scan-axis (step-axis) name resolves to,
\* and the sentinel 'nd' exactly when the first scan has no such element.
C5_Units ==
    /\ (AfterXLabel /\ "xunit" \in DOMAIN data) =>
          data["xunit"] =
              ExpectedUnit(ScanAxisLookup(data["scanAxis"], data["measType"]).axisType)
    /\ (pc \in {"area", "optional", "done"} /\ "yunit" \in DOMAIN data) =>
          data["yunit"] = ExpectedUnit(StepAxisLookup(data["stepAxis"]).axisType)

IsGrid(a) == IsNd(a) /\ NDim(a) = 2

\* an area measurement about to be reconciled, its scan axis among `names`,
\* whose stacked 2Theta grid has more columns than its stacked Omega grid
AreaMismatch(names) ==
    /\ pc = "area"
    /\ data["measType"] = "Area measurement"
    /\ "scanAxis" \in DOMAIN data
    /\ data["scanAxis"] \in names
    /\ data["stepAxis"] = "Omega"
    /\ IsGrid(data["2Theta"])
    /\ IsGrid(data["Omega"])
    /\ data["2Theta"].sh[2] > data["Omega"].sh[2]

\* the step gives Omega the shape of 2Theta, each row holding the Omega
\* value the row had before
OmegaBroadcast ==
    /\ pc' = "optional"
    /\ data'["Omega"].sh = data["2Theta"].sh
    /\ \A r \in 1..data["2Theta"].sh[1] : \A c \in 1..data["2Theta"].sh[2] :
          data'["Omega"].v[(r - 1) * data["2Theta"].sh[2] + c]
              = data["Omega"].v[(r - 1) * data["Omega"].sh[2] + 1]

\* C6 as stated: for an 'Area measurement' whose scan axis resolves to
\* 2Theta ('Gonio', '2Theta', '2Theta-Omega') and whose step axis is Omega,
\* a 2Theta grid with more columns than the Omega grid makes the returned
\* Omega take the shape of 2Theta, row r holding the Omega value of row r.
C6_AnyTwoThetaAxis ==
    [][AreaMismatch({"Gonio", "2Theta", "2Theta-Omega"}) => OmegaBroadcast]_vars

\* C6, amended: the same for the scan-axis name '2Theta' alone and an Omega
\* grid of one column.
C6_AreaBroadcast ==
    [][(AreaMismatch({"2Theta"}) /\ data["Omega"].sh[2] = 1) => OmegaBroadcast]_vars

\* Omega, recorded as one common position per scan, has been broadcast
C6_Witness ==
    /\ pc = "optional"
    /\ data["measType"] = "Area measurement"
    /\ data["scanAxis"] = "2Theta"
    /\ data["stepAxis"] = "Omega"
    /\ doc.scans[1].positions[2].kids[1].tag = "commonPosition"
    /\ IsGrid(data["Omega"])
    /\ data["Omega"].sh[2] >= 2
    /\ data["Omega"].sh = data["2Theta"].sh
    /\ data["Omega"].v[1] # data["Omega"].v[Size(data["Omega"])]

\* C7: the step-axis lookup is the scan-axis lookup: the label and the
\* physical axis it gives for the step-axis name (ylabel, and the axis used
\* for yunit) are those the scan-axis lookup gives for the same name.
C7_SameLookup ==
    (pc = "area" /\ nb_scans > 0 /\ "stepAxis" \in DOMAIN data) =>
        LET x == ScanAxisLookup(data["stepAxis"], data["measType"])
        IN  /\ "ylabel" \in DOMAIN data
            /\ data["ylabel"] = x.label
            /\ axisType = x.axisType

\* the scans that are primary, counted from 0
PrimaryScans ==
    {i \in 0..(nb_scans - 1) :
        doc.measType = "Scan" \/ doc.scans[i + 1].status = "Completed"}

\* the values _read_axis_info resolved for an axis of scan i
Resolved(i, key) == _get_scan_data(doc.scans, i).val[key]

PerPoint(i, key) ==
    /\ NDim(Resolved(i, key)) = 1
    /\ Size(Resolved(i, key)) = PointsOf(i + 1)

Common(i, key) == NDim(Resolved(i, key)) = 0

\* every value resolved for the axis, in every primary scan, is v
Uniform(key, v) ==
    \A i \in PrimaryScans :
        /\ Size(Resolved(i, key)) >= 1
        /\ \A j \in 1..Size(Resolved(i, key)) : Resolved(i, key).v[j] = v

FirstPrimary == CHOOSE i \in PrimaryScans : \A j \in PrimaryScans : i <= j

\* C8 as stated: for every measurement type, an axis field whose resolved
\* values are all equal across all points of all primary scans is returned
\* as a single scalar equal to that value.
C8_AlwaysScalar ==
    (pc = "done" /\ PrimaryScans # {}) =>
        \A key \in AxisNames \cap DOMAIN data :
            \A v \in {Resolved(FirstPrimary, key).v[j] :
                          j \in 1..Size(Resolved(FirstPrimary, key))} :
                Uniform(key, v) => data[key] = Nd(<<>>, <<v>>)

\* C8, amended: for a document of one scan whose type is neither 'Area
\* measurement' nor 'Repeated scan', 2Theta and Omega are returned as a
\* scalar when the scan resolved them to two or more per-point values that
\* are all equal, and as an array of the shape of data, holding the value at
\* every point, when the scan records them as a common position.
C8_Collapse ==
    (pc = "done" /\ nb_scans = 1
        /\ doc.measType \notin {"Area measurement", "Repeated scan"}) =>
        \A key \in {"2Theta", "Omega"} :
            LET r == Resolved(0, key)
            IN  /\ (NDim(r) = 1 /\ Size(r) >= 2 /\ Uniform(key, r.v[1])) =>
                      data[key] = Nd(<<>>, <<r.v[1]>>)
                /\ Common(0, key) =>
                      /\ data[key].sh = data["data"].sh
                      /\ \A j \in 1..Size(data[key]) : data[key].v[j] = r.v[1]

\* a scan of two or more points whose 2Theta, given per point, collapsed
C8_Witness ==
    /\ pc = "done"
    /\ nb_scans = 1
    /\ doc.measType = "Scan"
    /\ Size(data["data"]) >= 2
    /\ PerPoint(0, "2Theta")
    /\ data["2Theta"].sh = <<>>
    /\ Common(0, "Omega")
    /\ data["Omega"].sh = data["data"].sh

SameSize ==
    /\ Size(data["2Theta"]) = Size(data["data"])
    /\ Size(data["Omega"]) = Size(data["data"])

\* C9 as stated: in every dataset returned for 'Scan' or 'Area measurement'
\* the fields 2Theta, Omega and data have the same number of elements.
C9_AlwaysSameSize ==
    (pc = "done" /\ doc.measType \in {"Scan", "Area measurement"}) => SameSize

\* per-point values that the reduction leaves as they are
Varying(i, key) ==
    /\ PerPoint(i, key)
    /\ ~(Size(Resolved(i, key)) >= 2 /\ Uniform(key, Resolved(i, key).v[1]))

\* C9, amended: 2Theta, Omega and data have the same number of elements in
\* the dataset of a 'Scan' of one scan whose two axes are each recorded as a
\* common position or as one position per sample, not all equal when there
\* are two or more; and in the dataset of an 'Area measurement' whose 2Theta
\* is recorded as one position per sample and whose Omega is recorded
\* likewise, or as a common position with scanAxis '2Theta' and stepAxis
\* 'Omega'.
C9_SameSize ==
    /\ (pc = "done" /\ doc.measType = "Scan" /\ nb_scans = 1
          /\ \A key \in {"2Theta", "Omega"} : Common(0, key) \/ Varying(0, key))
       => SameSize
    /\ (pc = "done" /\ doc.measType = "Area measurement"
          /\ \A i \in PrimaryScans :
                /\ PerPoint(i, "2Theta")
                /\ \/ PerPoint(i, "Omega")
                   \/ /\ Common(i, "Omega")
                      /\ data["scanAxis"] = "2Theta"
                      /\ data["stepAxis"] = "Omega")
       => SameSize

\* an area measurement of two points per scan with a common Omega per scan
C9_Witness ==
    /\ pc = "done"
    /\ doc.measType = "Area measurement"
    /\ \A i \in PrimaryScans : PerPoint(i, "2Theta") /\ Common(i, "Omega")
    /\ data["scanAxis"] = "2Theta"
    /\ data["stepAxis"] = "Omega"
    /\ Size(data["data"]) >= 4
    /\ SameSize

\* C10: for 'Scan' and 'Repeated scan' with at least one scan and a
\* recognised scan-axis name, the dataset holds x, equal to the returned
\* field of the physical axis the name resolves to.
C10_XField ==
    (pc = "done" /\ doc.measType \in {"Scan", "Repeated scan"} /\ nb_scans > 0
        /\ doc.scans[1].scanAxis \in ScanAxisNames) =>
        /\ "x" \in DOMAIN data
        /\ data["x"] = data[ExpectedPhysical(doc.scans[1].scanAxis)]

\* the usedWavelength element and its four values are there
WaveComplete ==
    LET w == doc.usedWavelength
    IN  w.some /\ w.kAlpha1.some /\ w.kAlpha2.some /\ w.kBeta.some /\ w.ratio.some

\* the wavelength the tag asks for: two thirds of kAlpha1 + ratio * kAlpha2
\* for 'K-Alpha', kAlpha1 for every other tag
ExpectedLambda ==
    LET w == doc.usedWavelength
    IN  IF w.intended = "K-Alpha"
        THEN RMul(<<2, 3>>, RAdd(w.kAlpha1.val, RMul(w.ratio.val, w.kAlpha2.val)))
        ELSE w.kAlpha1.val

\* C11: Lambda is kAlpha1 for the tag 'K-Alpha 1',
\* (kAlpha1 + kAlphaRatio * kAlpha2) / 1.5 for 'K-Alpha' and kAlpha1 for
\* every other tag; whatever the tag, the wavelength step does not raise.
C11_Lambda ==
    [][(pc = "wavelength" /\ WaveComplete) =>
          /\ pc' = "xlabel"
          /\ data'["Lambda"] = ExpectedLambda
          /\ data'["kType"] = doc.usedWavelength.intended]_vars

\* the weighted wavelength of a 'K-Alpha' document with a ratio above zero
C11_Witness ==
    /\ pc = "xlabel"
    /\ doc.usedWavelength.intended = "K-Alpha"
    /\ doc.usedWavelength.ratio.val # Num(0)
    /\ data["Lambda"] = ExpectedLambda
    /\ data["Lambda"] # data["kAlpha1"]

FirstReflection == doc.scans[1].reflection

HklOf(refl) ==
    [t |-> "dict", sh |-> <<>>, v |-> <<refl.hkl.h, refl.hkl.k, refl.hkl.l>>]

NotDefined == [t |-> "str", sh |-> <<>>, v |-> <<>>]

\* C12 as stated: hkl and substrate are in the returned dataset if and only
\* if the document has more than one scan and its first scan holds a
\* reflection element; hkl is then the mapping of the integers h, k, l.
C12_HklIffReflection ==
    pc = "done" =>
        LET there == nb_scans > 1 /\ FirstReflection.some
        IN  /\ ("hkl" \in DOMAIN data) <=> there
            /\ ("substrate" \in DOMAIN data) <=> there
            /\ there => data["hkl"] = HklOf(FirstReflection)

\* C12, amended: hkl and substrate are in the returned dataset if and only
\* if the document has more than one scan.  With a reflection element in
\* the first scan hkl is the mapping of its integers h, k, l and substrate
\* its material; without one hkl is the text 'not defined' and substrate is
\* None.
C12_HklIffScans ==
    pc = "done" =>
        /\ ("hkl" \in DOMAIN data) <=> nb_scans > 1
        /\ ("substrate" \in DOMAIN data) <=> nb_scans > 1
        /\ (nb_scans > 1 /\ FirstReflection.some) =>
              /\ data["hkl"] = HklOf(FirstReflection)
              /\ data["substrate"] = FirstReflection.material
        /\ (nb_scans > 1 /\ ~FirstReflection.some) =>
              /\ data["hkl"] = NotDefined
              /\ data["substrate"] = None

\* a dataset of two or more scans without a reflection element
C12_Witness ==
    /\ pc = "done"
    /\ nb_scans > 1
    /\ ~FirstReflection.some
    /\ data["hkl"] = NotDefined

\* the scans the completeness test sends to the incidental bucket
IncidentalScans == {i \in 0..(nb_scans - 1) : i \notin PrimaryScans}

\* C13: the ten incidental fields are in the returned dataset if and only
\* if at least one scan was classified incidental and was not promoted;
\* when every scan is primary none of them is there.
C13_IncidentalFields ==
    pc = "done" =>
        LET kept == /\ IncidentalScans # {}
                    /\ ~(PrimaryScans = {} /\ Cardinality(IncidentalScans) = 1)
        IN  /\ kept => /\ Range(IncidentalKeys) \subseteq DOMAIN data
                       /\ Range(data["iscannb"].v) = IncidentalScans
            /\ ~kept => Range(IncidentalKeys) \cap DOMAIN data = {}

\* a dataset returned with an incidental scan beside a primary one
C13_Witness ==
    /\ pc = "done"
    /\ PrimaryScans # {}
    /\ IncidentalScans # {}
    /\ Range(IncidentalKeys) \subseteq DOMAIN data
    /\ Len(data["idata"].v) = Cardinality(IncidentalScans)

\* the positions elements of scan i (from 1) that list their positions
Listed(i) ==
    {p \in 1..Len(doc.scans[i].positions) :
        KidTags(doc.scans[i].positions[p]) = {"listPositions"}}

ListedValues(i, p) == FindKid(doc.scans[i].positions[p], "listPositions").nums

\* some scan lists a number of positions that is not its number of samples
HasMismatch ==
    \E i \in 1..nb_scans : \E p \in Listed(i) :
        Len(ListedValues(i, p)) # PointsOf(i)

\* C15: a number of listed positions that differs from the number of
\* intensities is not fatal: _read_axis_info returns the listed values as
\* they are, and read_xrdml returns a dataset, for documents of one scan and
\* of several scans alike.
C15_MismatchNotFatal ==
    HasMismatch =>
        /\ \A i \in 1..nb_scans : \A p \in Listed(i) :
              LET r == _read_axis_info(doc.scans[i].positions[p], PointsOf(i))
              IN  /\ r.ok
                  /\ r.val.data.sh = <<Len(ListedValues(i, p))>>
                  /\ \A j \in 1..Len(ListedValues(i, p)) :
                        r.val.data.v[j] = Num(ListedValues(i, p)[j])
        /\ pc # "error"

\* the number of points of a row of the stacked data
RowLength == PointsOf(data["scannb"].v[1] + 1)

\* C17: _get_scan_data divides intensities in 'counts' by the counting
\* time of their point and leaves intensities of any other unit as they
\* are, so that every row stacked into the primary data field, and every
\* row that enters the average of a 'Repeated scan', is in counts per second.
C17_RowsInCps ==
    (pc \in {"scans", "prune", "reduce", "repeated"} /\ IsNd(data["data"])) =>
        /\ Size(data["data"]) = Len(data["scannb"].v) * RowLength
        /\ \A r \in 1..Len(data["scannb"].v) : \A j \in 1..RowLength :
              data["data"].v[(r - 1) * RowLength + j]
                  = CpsAt(data["scannb"].v[r] + 1, j)

\* two rows of counts, divided by a counting time per point, about to be
\* averaged or returned
C17_Witness ==
    /\ pc = "repeated"
    /\ IsNd(data["data"])
    /\ data["data"].sh = <<2, 2>>
    /\ doc.scans[1].unit = "counts"
    /\ doc.scans[1].mode = "Pre-set counts"
    /\ data["data"].v[4] = CpsAt(2, 2)
    /\ data["data"].v[4] # Num(doc.scans[2].intensities.nums[2])

\* the axis names of the positions elements of scan i (from 1)
UnknownScanAxis == nb_scans > 0 /\ doc.scans[1].scanAxis \notin ScanAxisNames

\* C18: a scan-axis name outside the recognised set does not make
\* read_xrdml fail: the label step goes on, and the dataset holds the
\* xlabel 'unknown' and the xunit 'nd' from then on.
C18_UnknownAxis ==
    [][(UnknownScanAxis /\ pc \in {"xlabel", "ylabel", "area", "optional"}) =>
          /\ pc = "xlabel" => pc' = "ylabel"
          /\ pc' # "error" => /\ data'["xlabel"] = "unknown"
                              /\ data'["xunit"] = "nd"]_vars

\* a dataset returned for the scan-axis name 'Time'
C18_Witness ==
    /\ pc = "done"
    /\ UnknownScanAxis
    /\ data["scanAxis"] = "Time"
    /\ data["xlabel"] = "unknown"
    /\ data["xunit"] = "nd"

\* C19: stepAxis, and with it ylabel and yunit, is in the returned dataset
\* only when measurementType is neither 'Scan' nor 'Repeated scan'; for
\* those two types none of the three is there.
C19_StepFields ==
    pc = "done" =>
        /\ ("ylabel" \in DOMAIN data) <=> ("stepAxis" \in DOMAIN data)
        /\ ("yunit" \in DOMAIN data) <=> ("stepAxis" \in DOMAIN data)
        /\ ("stepAxis" \in DOMAIN data) =>
              doc.measType \notin {"Scan", "Repeated scan"}
        /\ doc.measType \in {"Scan", "Repeated scan"} =>
              {"stepAxis", "ylabel", "yunit"} \cap DOMAIN data = {}

\* a dataset of a 'Stress measurement' with the three fields
C19_Witness ==
    /\ pc = "done"
    /\ doc.measType = "Stress measurement"
    /\ {"stepAxis", "ylabel", "yunit"} \subseteq DOMAIN data
    /\ data["stepAxis"] = doc.stepAxis

BlockNames(i) ==
    {doc.scans[i].positions[p].axis : p \in 1..Len(doc.scans[i].positions)}

HasOtherAxis == \E i \in 1..nb_scans : BlockNames(i) \ AxisNames # {}

\* the scans the loop has gone through
Sorted == 1..(IF pc = "scans" THEN k ELSE nb_scans)

\* C20: a scan without an intensities element makes read_xrdml fail; a
\* positions element of an axis other than 2Theta, Omega, Phi, Psi, X, Y, Z
\* does not: it is dropped, the other axes of the scan are kept, and a
\* dataset is returned.
C20_FatalAndSoft ==
    /\ pc \notin {"open", "header", "error"} =>
          \A i \in Sorted : doc.scans[i].intensities.some
    /\ (pc = "scans" /\ k < nb_scans /\ ~doc.scans[k + 1].intensities.some) =>
          ~SortScan(data, k).ok
    /\ HasOtherAxis =>
          /\ \A i \in 1..nb_scans : doc.scans[i].intensities.some =>
                LET scan == _get_scan_data(doc.scans, i - 1)
                IN  /\ scan.ok
                    /\ DOMAIN scan.val \cap (BlockNames(i) \ AxisNames) = {}
                    /\ DOMAIN scan.val \ {"status", "scanAxis", "data", "time"}
                          = BlockNames(i) \cap AxisNames
          /\ (\A i \in 1..nb_scans : doc.scans[i].intensities.some) => pc # "error"
          /\ pc = "done" => DOMAIN data \cap UNION {BlockNames(i) \ AxisNames : i \in 1..nb_scans} = {}

\* a dataset returned for scans that hold a positions element for 'Chi'
C20_Witness ==
    /\ pc = "done"
    /\ HasOtherAxis
    /\ nb_scans = 2
    /\ {"2Theta", "Omega", "Phi", "Z"} \subseteq DOMAIN data
    /\ "Chi" \notin DOMAIN data

\* the xrdMeasurement element or the usedWavelength element is absent
LacksMandatory == ~doc.hasRoot \/ ~doc.usedWavelength.some

\* C21: read_xrdml fails whenever the document lacks the xrdMeasurement
\* element or the usedWavelength element, for every measurement type and
\* every number of scans: the call gets no further than the step that reads
\* the absent element, and that step raises.
C21_MandatoryBlocks ==
    /\ (doc.exists /\ ~doc.hasRoot) => pc \in {"open", "header", "error"}
    /\ (doc.exists /\ LacksMandatory) =>
          pc \in {"open", "header", "scans", "prune", "reduce", "repeated",
                  "wavelength", "error"}
    /\ (pc = "error" /\ LacksMandatory /\ doc.exists) => err # ""

\* the wavelength step raised for a document of two scans without the element
C21_Witness ==
    /\ pc = "error"
    /\ err = "AttributeError"
    /\ doc.hasRoot
    /\ ~doc.usedWavelength.some
    /\ nb_scans = 2
    /\ "Lambda" \notin DOMAIN data

\* C22: read_xrdml called with a path that does not exist raises ValueError
\* at once, before anything is parsed or any dataset is built, and the call
\* is not tried again: no step follows the error.
C22_InvalidPath ==
    [][/\ pc # "error"
       /\ ~doc.exists => /\ pc = "open"
                         /\ pc' = "error"
                         /\ err' = "ValueError"
                         /\ data' = data
                         /\ DOMAIN data = {}]_vars

\* the call for a missing path has raised
C22_Witness ==
    /\ ~doc.exists
    /\ pc = "error"
    /\ err = "ValueError"
    /\ DOMAIN data = {}

HasOtherTag(pos) == KidTags(pos) \ SupportedTags # {}

\* C14: _read_axis_info never raises on an unsupported encoding: for a
\* positions element with a child whose tag is none of listPositions,
\* startPosition, endPosition, commonPosition, and for every n >= 0, the
\* call returns, and the axis data it returns is an empty sequence.
C14_UnsupportedIsEmpty ==
    (pc \in {"axis_done", "error"} /\ HasOtherTag(doc.pos)) =>
        /\ pc = "axis_done"
        /\ "data" \in DOMAIN data
        /\ data["data"] = Nd(<<0>>, <<>>)

Monotonic(v, up) ==
    \A i \in 1..(Len(v) - 1) :
        IF up THEN RSub(v[i + 1], v[i])[1] > 0
        ELSE RSub(v[i + 1], v[i])[1] < 0

\* the call is for a positions element given as startPosition/endPosition
IsRange(pos) ==
    /\ Len(pos.kids) = 2
    /\ KidTags(pos) = {"startPosition", "endPosition"}

StartOf(pos) == FindKid(pos, "startPosition").nums[1]
EndOf(pos) == FindKid(pos, "endPosition").nums[1]

\* C16: for a positions element given as startPosition/endPosition and
\* every n >= 2, _read_axis_info returns exactly n values, the first equal
\* to start, the last equal to end, strictly increasing when end > start and
\* strictly decreasing when end < start.
C16_RangeEndpoints ==
    (pc \in {"axis_done", "error"} /\ IsRange(doc.pos) /\ doc.n >= 2) =>
        /\ pc = "axis_done"
        /\ data["data"].sh = <<doc.n>>
        /\ Len(data["data"].v) = doc.n
        /\ data["data"].v[1] = Num(StartOf(doc.pos))
        /\ data["data"].v[doc.n] = Num(EndOf(doc.pos))
        /\ EndOf(doc.pos) > StartOf(doc.pos) => Monotonic(data["data"].v, TRUE)
        /\ EndOf(doc.pos) < StartOf(doc.pos) => Monotonic(data["data"].v, FALSE)

\* a descending range resolved to three or more values
C16_Witness ==
    /\ pc = "axis_done"
    /\ IsRange(doc.pos)
    /\ doc.n >= 3
    /\ EndOf(doc.pos) < StartOf(doc.pos)
    /\ Len(data["data"].v) = doc.n

\* C23: angle2qvector, q2hkl_map and angles are pure: after a call every
\* argument holds the values it held before the call; the arrays x and y
\* passed to q2hkl_map are unchanged and only the returned values carry the
\* result.
C23_ArgumentsUnchanged == [][doc' = doc]_vars

LacksStage == \E i \in PrimaryScans : Range(StageKeys) \ BlockNames(i + 1) # {}

\* C25: a document with a primary scan that has no positions element for
\* one of Phi, Psi, X, Y, Z is decoded without error, and a stage axis no
\* primary scan has an element for is absent from the dataset.
C25_StageOptional ==
    (LacksStage /\ pc \in {"done", "error"}) =>
        /\ pc = "done"
        /\ \A key \in Range(StageKeys) :
              (\A i \in PrimaryScans : key \notin BlockNames(i + 1)) =>
                  key \notin DOMAIN data

\* a document with its xrdMeasurement and usedWavelength elements and no scan
NoScans ==
    /\ doc.exists
    /\ doc.hasRoot
    /\ doc.usedWavelength.some
    /\ nb_scans = 0

\* C26: a document with the root and the wavelength elements and no scan is
\* decoded: a dataset is returned, without scanAxis, xlabel, xunit and x.
C26_NoScans ==
    (NoScans /\ pc \in {"done", "error"}) =>
        /\ pc = "done"
        /\ {"scanAxis", "xlabel", "xunit", "x"} \cap DOMAIN data = {}

\* the keys read_xrdml hands to _get_array_for_single_value
ReducedKeys == {"time", "2Theta", "Omega"} \cup Range(StageKeys)

\* a second application to the dataset d, key by key, gives what d holds
SecondKeeps(d, key) ==
    LET twice == _get_array_for_single_value(d, key)
    IN  twice.ok /\ twice.val[key] = d[key]

\* the first pass over the dataset about to be reduced, key by key
IdempotentAt(key) ==
    LET once == _get_array_for_single_value(data, key)
    IN  once.ok => SecondKeeps(once.val, key)

\* the pass of the 'Repeated scan' branch over the dataset the first pass
\* gave, its data averaged
SecondPassKeeps(key) ==
    LET n == Len(data["scannb"].v)
        avg == Average(data["data"], n)
        r == ReduceKeys(Put(data, "data", avg.val), <<"2Theta", "Omega">> \o StageKeys, 1)
    IN  (avg.ok /\ r.ok) => r.val[key] = data[key]

\* C27: _get_array_for_single_value is idempotent: applied twice to a
\* dataset and a key it leaves the field as applied once; and the pass of
\* the 'Repeated scan' branch over 2Theta, Omega, Phi, Psi, X, Y, Z leaves
\* the fields of the first pass as they are.
C27_Idempotent ==
    /\ pc = "reduce" =>
          \A key \in ReducedKeys \cap DOMAIN data : IdempotentAt(key)
    /\ (pc = "repeated" /\ data["measType"] = "Repeated scan") =>
          \A key \in (ReducedKeys \ {"time"}) \cap DOMAIN data : SecondPassKeeps(key)

\* the document has no primary scan and exactly one incidental scan
LoneIncidental == PrimaryScans = {} /\ Cardinality(IncidentalScans) = 1

\* C28: the promotion step changes the buckets only when the primary bucket
\* is empty and the incidental bucket holds exactly one scan: in every other
\* case it leaves scannb, iscannb and every primary and incidental field as
\* they are.
C28_PromotionFrame ==
    [][(pc = "scans" /\ pc' = "prune" /\ ~LoneIncidental) =>
          \A key \in Range(PrimaryKeys) \cup Range(IncidentalKeys) :
              data'[key] = data[key]]_vars
\* the step has gone over two incidental scans and no primary one
C28_Witness ==
    /\ pc = "prune"
    /\ PrimaryScans = {}
    /\ Cardinality(IncidentalScans) = 2
    /\ data["scannb"] = EmptyList
    /\ Len(data["iscannb"].v) = 2

=============================================================================
